---- MODULE Spec2Model ----
(***************************************************************************)
(* contentManagementUtilRemoveFieldsFromData: the schema-driven sanitizer  *)
(* of the content manager.  The JavaScript heap is modelled explicitly     *)
(* (objects and arrays live at addresses, values are primitives or         *)
(* references) so that the shallow copy of the accumulator, the deletes    *)
(* and the assignments of recursiveCleanData act on identifiable objects.  *)
(***************************************************************************)
EXTENDS Naturals, Sequences, FiniteSets

VARIABLES heap, data, contentTypeSchema, componentSchema, fields,
          pc, result, result2, threw, visits

vars == <<heap, data, contentTypeSchema, componentSchema, fields,
          pc, result, result2, threw, visits>>

\* Longest array drawn for a repeatable component or a dynamic zone.
MaxLen == 2

(***************************************************************************)
(* Values.  A primitive is a token: "null", "undefined", "0", "false", ""  *)
(* are the falsy ones, "1" and "true" a number and a boolean, every other  *)
(* token a non-empty string.  A reference holds the address of an object.  *)
(***************************************************************************)
S(x) == [t |-> "s", s |-> x, a |-> 0]

R(addr) == [t |-> "r", s |-> "", a |-> addr]

Undefined == S("undefined")

Nullish == {"null", "undefined"}

NonStrings == {"null", "undefined", "0", "false", "1", "true"}

\* The array indices as property names, in order.
IdxNames == <<"0", "1", "2", "3", "4", "5", "6", "7", "8", "9">>

\* Property enumeration order: integer-like keys first, then the others.
NameOrder == IdxNames \o <<"__component", "id", "createdBy", "stamp", "title",
                           "extra", "cover", "images", "sections", "ghost">>

NoProps == [n \in {} |-> Undefined]

Obj(f) == [arr |-> FALSE, f |-> f, items |-> <<>>]

Arr(items) == [arr |-> TRUE, f |-> NoProps, items |-> items]

\* The characters of the string tokens the model uses.
Chars(s) ==
  CASE s = "hi" -> <<"h", "i">>
    [] s = "t" -> <<"t">>
    [] s = "x" -> <<"x">>
    [] s = "hero" -> <<"h", "e", "r", "o">>
    [] s = "quote" -> <<"q", "u", "o", "t", "e">>
    [] s = "nope" -> <<"n", "o", "p", "e">>
    [] OTHER -> <<>>

IndexProps(items) ==
  [n \in {IdxNames[i] : i \in 1..Len(items)} |->
      items[CHOOSE i \in 1..Len(items) : IdxNames[i] = n]]

\* The own enumerable properties of a value, as Object.keys and
\* Object.assign see them.
Props(h, v) ==
  IF v.t = "r"
    THEN IF h[v.a].arr THEN IndexProps(h[v.a].items) ELSE h[v.a].f
    ELSE IF v.s \in NonStrings THEN NoProps
         ELSE IndexProps([i \in 1..Len(Chars(v.s)) |-> S(Chars(v.s)[i])])

ObjectKeys(h, v) ==
  LET Own(n) == n \in DOMAIN Props(h, v)
  IN  SelectSeq(NameOrder, Own)

\* lodash get(data, current) for a one-segment path.
Get(h, v, k) == IF k \in DOMAIN Props(h, v) THEN Props(h, v)[k] ELSE Undefined

IsArray(h, v) == v.t = "r" /\ h[v.a].arr

Truthy(v) == v.t = "r" \/ v.s \notin {"null", "undefined", "0", "false", ""}

(***************************************************************************)
(* Schemas.  A schema holds its attributes and options.timestamps; the     *)
(* latter is kept with a flag telling whether it is an array at all.       *)
(* UndefinedSchema is what componentSchema[key] yields for a missing key.  *)
(***************************************************************************)
Attr(type, component, repeatable) ==
  [type |-> type, component |-> component, repeatable |-> repeatable]

NoAttrs == [n \in {} |-> Attr("", "", FALSE)]

NotAnArray == [isArray |-> FALSE, items |-> <<>>]

ArrayOfNames(names) == [isArray |-> TRUE, items |-> names]

Schema(attributes, timestamps) ==
  [defined |-> TRUE, attributes |-> attributes, timestamps |-> timestamps]

UndefinedSchema ==
  [defined |-> FALSE, attributes |-> NoAttrs, timestamps |-> NotAnArray]

\* getType(schema, attrName): the declared type, '' when there is none.
getType(schema, attrName) ==
  IF schema.defined /\ attrName \in DOMAIN schema.attributes
    THEN schema.attributes[attrName].type
    ELSE ""

\* getOtherInfos(schema, [attrName, 'component']).
getComponent(schema, attrName) ==
  IF schema.defined /\ attrName \in DOMAIN schema.attributes
    THEN schema.attributes[attrName].component
    ELSE ""

\* getOtherInfos(schema, [attrName, 'repeatable']), as a truth value.
getRepeatable(schema, attrName) ==
  /\ schema.defined
  /\ attrName \in DOMAIN schema.attributes
  /\ schema.attributes[attrName].repeatable

defaultFields == <<"createdBy", "updatedBy", "publishedAt", "id", "_id">>

Range(seq) == {seq[i] : i \in 1..Len(seq)}

(***************************************************************************)
(* The statements of recursiveCleanData's callback, one operator each.     *)
(***************************************************************************)

\* let timestamps = get(schema, ['options', 'timestamps']);
\* if (!Array.isArray(timestamps)) timestamps = [];
TimestampsOf(schema) ==
  IF schema.defined /\ schema.timestamps.isArray
    THEN schema.timestamps.items
    ELSE <<>>

\* [...fields, ...timestamps].indexOf(current) !== -1
IsExcludedFieldsOnly(flds, schema, current) == current \in Range(flds)

IsExcludedByRootTimestamps(flds, schema, current) ==
  current \in Range(flds \o contentTypeSchema.timestamps.items)

IsExcluded(flds, schema, current) ==
  current \in Range(flds \o TimestampsOf(schema))

\* componentSchema[key]
LookupOrFirst(table, key) ==
  IF key \in DOMAIN table THEN table[key] ELSE table["hero"]

Lookup(table, key) ==
  IF key \in DOMAIN table THEN table[key] ELSE UndefinedSchema

\* componentSchema[componentValue.__component], for entry i of a zone.
DynamicZoneSchemaShared(table, h, items, i) ==
  Lookup(table, Get(h, items[1], "__component").s)

DynamicZoneSchema(table, h, items, i) ==
  Lookup(table, Get(h, items[i], "__component").s)

\* attrType === 'dynamiczone' && Array.isArray(value)
IsDynamicZoneAnyArray(attrType, h, value) == IsArray(h, value)

IsDynamicZone(attrType, h, value) ==
  attrType = "dynamiczone" /\ IsArray(h, value)

\* attrType === 'component'
IsComponent(attrType) == attrType = "component"

\* The accumulator the reduce starts from: Object.assign({}, data), a new
\* object holding data's own properties.  Yields the heap and the address.
AccumulatorAliased(h, v) ==
  IF v.t = "r" THEN [heap |-> h, acc |-> v.a]
               ELSE [heap |-> Append(h, Obj(NoProps)), acc |-> Len(h) + 1]

AccumulatorEmpty(h, v) ==
  [heap |-> Append(h, Obj(NoProps)), acc |-> Len(h) + 1]

AccumulatorInit(h, v) ==
  [heap |-> Append(h, Obj(Props(h, v))), acc |-> Len(h) + 1]

\* delete acc[current]
DeleteKey(h, acc, current) ==
  [h EXCEPT ![acc].f = [n \in DOMAIN @ \ {current} |-> @[n]]]

\* acc[current] = v
AssignKey(h, acc, current, v) ==
  [h EXCEPT ![acc].f =
      [n \in DOMAIN @ \cup {current} |-> IF n = current THEN v ELSE @[n]]]

\* The array value.map(...) returns for the mapped entries.
MappedArrayReversed(rets) == Arr([i \in 1..Len(rets) |-> rets[Len(rets) + 1 - i]])

MappedArray(rets) == Arr(rets)

(***************************************************************************)
(* recursiveCleanData.  An execution state st carries the heap, the value  *)
(* returned by the last call (ret), whether a TypeError was thrown, and    *)
(* the log of completed calls: which object was cleaned (in), into which   *)
(* new object (out), under which schema, and how the call was made (via).  *)
(***************************************************************************)
RECURSIVE recursiveCleanData(_, _, _, _)
RECURSIVE ReduceKeys(_, _, _, _, _, _)
RECURSIVE MapEntries(_, _, _, _, _, _)

\* value.map(callback): entry i is cleaned under the schema its own
\* __component names (mode "dz") or under the field's schema (mode "rep");
\* reading __component of null or undefined throws.
MapEntries(st, items, i, mode, schema, rets) ==
  IF st.threw THEN st
  ELSE IF i > Len(items)
    THEN [st EXCEPT !.heap = Append(st.heap, MappedArray(rets)),
                    !.ret = R(Len(st.heap) + 1)]
  ELSE IF mode = "dz" /\ items[i].t = "s" /\ items[i].s \in Nullish
    THEN [st EXCEPT !.threw = TRUE]
  ELSE LET sub == IF mode = "dz"
                    THEN DynamicZoneSchema(componentSchema, st.heap, items, i)
                    ELSE schema
           r == recursiveCleanData(st, items[i], sub, mode)
       IN  MapEntries(r, items, i + 1, mode, schema, Append(rets, r.ret))

\* The reduce over Object.keys(data): the callback applied to keys[i].
ReduceKeys(st, keys, i, dataVal, acc, schema) ==
  IF st.threw \/ i > Len(keys) THEN st
  ELSE
    LET current == keys[i]
        attrType == getType(schema, current)
        value == Get(st.heap, dataVal, current)
        component == getComponent(schema, current)
        isRepeatable == getRepeatable(schema, current)
        next ==
          IF IsExcluded(fields, schema, current)
            THEN [st EXCEPT !.heap = DeleteKey(st.heap, acc, current)]
          ELSE IF ~Truthy(value) THEN st
          ELSE IF IsDynamicZone(attrType, st.heap, value)
            THEN LET r == MapEntries(st, st.heap[value.a].items, 1, "dz",
                                     UndefinedSchema, <<>>)
                 IN  IF r.threw THEN r
                     ELSE [r EXCEPT !.heap = AssignKey(r.heap, acc, current, r.ret)]
          ELSE IF IsComponent(attrType)
            THEN LET sub == Lookup(componentSchema, component)
                     r == IF isRepeatable /\ IsArray(st.heap, value)
                            THEN MapEntries(st, st.heap[value.a].items, 1, "rep",
                                            sub, <<>>)
                            ELSE recursiveCleanData(st, value, sub, "one")
                 IN  IF r.threw THEN r
                     ELSE [r EXCEPT !.heap = AssignKey(r.heap, acc, current, r.ret)]
          ELSE st
    IN  ReduceKeys(next, keys, i + 1, dataVal, acc, schema)

\* Object.keys(data).reduce(callback, Object.assign({}, data)); Object.keys
\* of null or undefined throws.
recursiveCleanData(st, dataVal, schema, via) ==
  IF st.threw THEN st
  ELSE IF dataVal.t = "s" /\ dataVal.s \in Nullish
    THEN [st EXCEPT !.threw = TRUE]
  ELSE
    LET keys == ObjectKeys(st.heap, dataVal)
        init == AccumulatorInit(st.heap, dataVal)
        done == ReduceKeys([st EXCEPT !.heap = init.heap], keys, 1, dataVal,
                           init.acc, schema)
    IN  IF done.threw THEN done
        ELSE [done EXCEPT
                !.ret = R(init.acc),
                !.visits = @ \cup {[in |-> dataVal, out |-> init.acc,
                                    schema |-> schema, via |-> via]}]

\* recursiveCleanData(data, contentTypeSchema) on a heap h.
contentManagementUtilRemoveFieldsFromData(h, dataVal) ==
  recursiveCleanData([heap |-> h, ret |-> Undefined, threw |-> FALSE,
                      visits |-> {}],
                     dataVal, contentTypeSchema, "root")

(***************************************************************************)
(* The inputs.  The content type declares a string, a single and a        *)
(* repeatable component, a dynamic zone and a component whose identifier   *)
(* the table does not hold; the table holds hero, quote and img.  The      *)
(* record has some scalar fields and at most one structured field, whose   *)
(* value is an entry or an array of entries (an entry is an object, null   *)
(* or a number).                                                           *)
(***************************************************************************)
ContentType(timestamps) ==
  Schema([title |-> Attr("string", "", FALSE),
          stamp |-> Attr("datetime", "", FALSE),
          cover |-> Attr("component", "img", FALSE),
          images |-> Attr("component", "img", TRUE),
          sections |-> Attr("dynamiczone", "", FALSE),
          ghost |-> Attr("component", "missing", FALSE)],
         timestamps)

Components(heroTimestamps) ==
  [hero |-> Schema([title |-> Attr("string", "", FALSE),
                    cover |-> Attr("component", "img", FALSE)],
                   heroTimestamps),
   quote |-> Schema([title |-> Attr("string", "", FALSE)], ArrayOfNames(<<>>)),
   img |-> Schema([title |-> Attr("string", "", FALSE)],
                  ArrayOfNames(<<"stamp">>))]

TimestampsChoices == {NotAnArray, ArrayOfNames(<<"stamp">>)}

FieldsChoices == {defaultFields, <<"title", "cover", "__component">>}

Entry(kind, comp, dom, falsy, cover) ==
  [kind |-> kind, comp |-> comp, dom |-> dom, falsy |-> falsy, cover |-> cover]

NullEntry == Entry("null", "", {}, FALSE, FALSE)

NumberEntry == Entry("num", "", {}, FALSE, FALSE)

FullLeaf == Entry("obj", "", {"id", "stamp", "title"}, FALSE, FALSE)

LeafEntries ==
  {FullLeaf,
   Entry("obj", "", {"title", "extra"}, TRUE, FALSE),
   Entry("obj", "", {"id", "extra"}, TRUE, FALSE),
   Entry("obj", "", {}, FALSE, FALSE)}

ZoneEntries ==
  {Entry("obj", "hero", {"id", "stamp", "title", "extra"}, FALSE, TRUE),
   Entry("obj", "quote", {"id", "stamp", "title", "extra"}, FALSE, TRUE),
   Entry("obj", "nope", {"id", "stamp", "title"}, FALSE, TRUE),
   Entry("obj", "", {"id", "stamp", "title"}, FALSE, FALSE),
   Entry("obj", "hero", {"id", "title", "extra"}, TRUE, FALSE)}

SeqsUpTo(set, n) == UNION {[1..k -> set] : k \in 0..n}

Shape(field, isArr, entries) ==
  [field |-> field, isArr |-> isArr, entries |-> entries]

TopShapes ==
  {Shape("", FALSE, <<>>)}
  \cup {Shape("cover", FALSE, <<e>>) : e \in LeafEntries \cup {NumberEntry}}
  \cup {Shape("cover", TRUE, <<FullLeaf>>)}
  \cup {Shape("images", TRUE, es) : es \in SeqsUpTo(LeafEntries \cup {NullEntry}, MaxLen)}
  \cup {Shape("images", FALSE, <<FullLeaf>>)}
  \cup {Shape("sections", TRUE, es) : es \in SeqsUpTo(ZoneEntries \cup {NullEntry}, MaxLen)}
  \cup {Shape("sections", FALSE, <<FullLeaf>>)}
  \cup {Shape("ghost", FALSE, <<e>>) : e \in LeafEntries}
  \cup {Shape("extra", FALSE, <<FullLeaf>>), Shape("extra", TRUE, <<FullLeaf>>)}
  \cup {Shape("createdBy", FALSE, <<FullLeaf>>)}

\* The scalar fields of the record, as sequences of <<name, token>>.
ScalarParts ==
  {<<>>,
   <<<<"id", "1">>, <<"stamp", "t">>, <<"title", "hi">>, <<"extra", "x">>>>,
   <<<<"id", "0">>, <<"stamp", "t">>, <<"title", "">>, <<"extra", "null">>>>,
   <<<<"title", "true">>, <<"extra", "false">>, <<"createdBy", "null">>>>}

PartProps(part) ==
  [n \in {part[i][1] : i \in 1..Len(part)} |->
      S(part[CHOOSE i \in 1..Len(part) : part[i][1] = n][2])]

EntryToken(e, n) ==
  CASE n = "id" -> IF e.falsy THEN "0" ELSE "1"
    [] n = "stamp" -> "t"
    [] n = "title" -> IF e.falsy THEN "" ELSE "hi"
    [] OTHER -> "x"

\* The heap with entry e allocated, and the value that denotes the entry.
AllocEntry(h, e) ==
  IF e.kind = "null" THEN [heap |-> h, val |-> S("null")]
  ELSE IF e.kind = "num" THEN [heap |-> h, val |-> S("1")]
  ELSE
    LET h1 == IF e.cover
                THEN Append(h, Obj([n \in FullLeaf.dom |-> S(EntryToken(FullLeaf, n))]))
                ELSE h
        names == e.dom \cup (IF e.comp = "" THEN {} ELSE {"__component"})
                       \cup (IF e.cover THEN {"cover"} ELSE {})
        f == [n \in names |->
                IF n = "__component" THEN S(e.comp)
                ELSE IF n = "cover" THEN R(Len(h1))
                ELSE S(EntryToken(e, n))]
    IN  [heap |-> Append(h1, Obj(f)), val |-> R(Len(h1) + 1)]

RECURSIVE AllocEntries(_, _, _, _)
AllocEntries(h, entries, i, vals) ==
  IF i > Len(entries) THEN [heap |-> h, vals |-> vals]
  ELSE LET a == AllocEntry(h, entries[i])
       IN  AllocEntries(a.heap, entries, i + 1, Append(vals, a.val))

\* The heap holding the record, and the reference to the record.
BuildRecord(part, shape) ==
  LET a == AllocEntries(<<>>, shape.entries, 1, <<>>)
      h1 == IF shape.isArr THEN Append(a.heap, Arr(a.vals)) ELSE a.heap
      v == IF shape.isArr THEN R(Len(h1)) ELSE a.vals[1]
      scalars == PartProps(part)
      f == [n \in DOMAIN scalars \cup (IF shape.field = "" THEN {} ELSE {shape.field}) |->
              IF n = shape.field THEN v ELSE scalars[n]]
  IN  [heap |-> Append(h1, Obj(f)), root |-> R(Len(h1) + 1)]

Init ==
  \E flds \in FieldsChoices, topTs \in TimestampsChoices,
     heroTs \in TimestampsChoices, part \in ScalarParts, shape \in TopShapes :
    LET b == BuildRecord(part, shape)
    IN  /\ heap = b.heap
        /\ data = b.root
        /\ contentTypeSchema = ContentType(topTs)
        /\ componentSchema = Components(heroTs)
        /\ fields = flds
        /\ pc = "ready"
        /\ result = Undefined
        /\ result2 = Undefined
        /\ threw = FALSE
        /\ visits = {}

\* The caller cleans the record.
Redact ==
  /\ pc = "ready"
  /\ LET r == contentManagementUtilRemoveFieldsFromData(heap, data)
     IN  /\ heap' = r.heap
         /\ threw' = r.threw
         /\ result' = r.ret
         /\ visits' = r.visits
  /\ pc' = "cleaned"
  /\ UNCHANGED <<data, contentTypeSchema, componentSchema, fields, result2>>

\* The caller cleans the cleaned record once more, with the same arguments.
RedactAgain ==
  /\ pc = "cleaned"
  /\ ~threw
  /\ LET r == contentManagementUtilRemoveFieldsFromData(heap, result)
     IN  /\ heap' = r.heap
         /\ threw' = r.threw
         /\ result2' = r.ret
         /\ visits' = visits \cup r.visits
  /\ pc' = "recleaned"
  /\ UNCHANGED <<data, contentTypeSchema, componentSchema, fields, result>>

Next == Redact \/ RedactAgain

Spec == Init /\ [][Next]_vars

(***************************************************************************)
(* Vocabulary of the properties.  A level is a logged call: the value the  *)
(* call cleaned, the object it returned and the schema it was given.       *)
(***************************************************************************)
Keys(v) == DOMAIN Props(heap, v)

In(v, n) == Get(heap, v.in, n)

Out(v) == heap[v.out].f

\* The effective exclusion set of a level governed by schema.
Excluded(schema) ==
  Range(fields) \cup
    (IF schema.defined /\ schema.timestamps.isArray
       THEN Range(schema.timestamps.items)
       ELSE {})

Declared(schema, n) == schema.defined /\ n \in DOMAIN schema.attributes

\* The schema the table holds under key, if any.
TableSchema(key) ==
  IF key \in DOMAIN componentSchema THEN componentSchema[key] ELSE UndefinedSchema

Resolved(key) == key \in DOMAIN componentSchema

IsRecord(v) == v.t = "r" /\ ~heap[v.a].arr

InputHasNullEntry ==
  \E a \in DOMAIN heap :
    heap[a].arr /\ \E i \in 1..Len(heap[a].items) : heap[a].items[i] = S("null")

\* C1: at every level the call visits, the returned object holds no field
\* whose name is in the level's effective exclusion set (the fields argument
\* and the timestamps of the level's schema), whatever its value or kind.
C1_ExclusionCompleteness ==
  \A v \in visits : \A n \in Excluded(v.schema) : n \notin DOMAIN Out(v)

\* A dynamic-zone entry, the component nested in it and the record itself
\* each held an excluded name, one of them through timestamps.
C1_Witness ==
  /\ pc = "cleaned"
  /\ \A via \in {"root", "dz", "one"} :
       \E v \in visits : v.via = via /\ Keys(v.in) \cap Excluded(v.schema) # {}
  /\ \E v \in visits : "stamp" \in Keys(v.in) \cap Excluded(v.schema)

\* C2 as claimed: once a level was reached whose component identifier or
\* discriminator the table does not hold, the call has failed.
C2_FailFast ==
  (pc = "cleaned" /\ \E v \in visits : ~v.schema.defined) => threw

\* C2 amended: an unresolved identifier or discriminator does not make the
\* call fail (it throws only on a null entry); the level is cleaned with no
\* schema: the fields argument's names are removed, every other field is
\* kept with its value.
C2_UnresolvedProceeds ==
  /\ threw => InputHasNullEntry
  /\ \A v \in visits :
       /\ (v.via = "dz" /\ ~Resolved(In(v, "__component").s)) =>
            /\ DOMAIN Out(v) = Keys(v.in) \ Range(fields)
            /\ \A k \in DOMAIN Out(v) : Out(v)[k] = In(v, k)
       /\ \A n \in Keys(v.in) \ Excluded(v.schema) :
            (/\ Declared(v.schema, n)
             /\ v.schema.attributes[n].type = "component"
             /\ ~Resolved(v.schema.attributes[n].component)
             /\ IsRecord(In(v, n))) =>
               /\ n \in DOMAIN Out(v)
               /\ Out(v)[n].t = "r"
               /\ Out(v)[n] # In(v, n)
               /\ DOMAIN heap[Out(v)[n].a].f = Keys(In(v, n)) \ Range(fields)
               /\ \A k \in DOMAIN heap[Out(v)[n].a].f :
                    heap[Out(v)[n].a].f[k] = Get(heap, In(v, n), k)

\* The call returned although a zone entry's discriminator and a component
\* field's identifier were unresolved, and the entry kept a timestamps name.
C2_Witness ==
  /\ pc = "cleaned"
  /\ ~threw
  /\ \E v \in visits :
       /\ v.via = "dz"
       /\ "__component" \in Keys(v.in)
       /\ ~Resolved(In(v, "__component").s)
       /\ "stamp" \in DOMAIN Out(v)
       /\ "id" \in Keys(v.in) \ DOMAIN Out(v)

\* C3 as claimed: a field that is not excluded and holds a falsy value is
\* absent from the returned object.
C3_FalsyOmitted ==
  \A v \in visits : \A n \in Keys(v.in) \ Excluded(v.schema) :
    ~Truthy(In(v, n)) => n \notin DOMAIN Out(v)

\* C3 amended: a field that is not excluded and holds a falsy value is kept
\* in the returned object with that value.
C3_FalsyRetained ==
  \A v \in visits : \A n \in Keys(v.in) \ Excluded(v.schema) :
    ~Truthy(In(v, n)) => (n \in DOMAIN Out(v) /\ Out(v)[n] = In(v, n))

\* The record and a nested entry each held a falsy field that is not excluded.
C3_Witness ==
  /\ pc = "cleaned"
  /\ \A nested \in BOOLEAN :
       \E v \in visits :
         /\ (v.via # "root") = nested
         /\ \E n \in Keys(v.in) \ Excluded(v.schema) : ~Truthy(In(v, n))

\* C4 as claimed: a field that is not excluded, holds a truthy value and is
\* declared with a kind other than component and dynamic zone is absent from
\* the returned object.
C4_ScalarOmitted ==
  \A v \in visits : \A n \in Keys(v.in) \ Excluded(v.schema) :
    (/\ Truthy(In(v, n))
     /\ Declared(v.schema, n)
     /\ v.schema.attributes[n].type \notin {"component", "dynamiczone"})
      => n \notin DOMAIN Out(v)

\* C4 amended: such a field is kept in the returned object with its value.
C4_ScalarRetained ==
  \A v \in visits : \A n \in Keys(v.in) \ Excluded(v.schema) :
    (/\ Truthy(In(v, n))
     /\ Declared(v.schema, n)
     /\ v.schema.attributes[n].type \notin {"component", "dynamiczone"})
      => (n \in DOMAIN Out(v) /\ Out(v)[n] = In(v, n))

\* The record and a zone entry each held a truthy declared string.
C4_Witness ==
  /\ pc = "cleaned"
  /\ \A via \in {"root", "dz"} :
       \E v \in visits :
         /\ v.via = via
         /\ "title" \in Keys(v.in) \ Excluded(v.schema)
         /\ Declared(v.schema, "title")
         /\ Truthy(In(v, "title"))

\* C5: a call changes no object that existed before it (the record and all
\* that is nested in it included), nor the schema, the table or the list.
C5_NoMutation ==
  [][/\ \A a \in DOMAIN heap : a \in DOMAIN heap' /\ heap'[a] = heap[a]
     /\ contentTypeSchema' = contentTypeSchema
     /\ componentSchema' = componentSchema
     /\ fields' = fields
     /\ data' = data]_vars

\* The call returned after deleting a field at a nested level and assigning
\* a cleaned component to a field of the record's copy.
C5_Witness ==
  /\ pc = "cleaned"
  /\ ~threw
  /\ \E v \in visits : v.via # "root" /\ DOMAIN Out(v) # Keys(v.in)
  /\ \E v \in visits :
       v.via = "root" /\ \E n \in DOMAIN Out(v) : Out(v)[n] # In(v, n)

RECURSIVE StructurallyEqual(_, _, _)
StructurallyEqual(h, v, w) ==
  IF v.t = "s" \/ w.t = "s" THEN v = w
  ELSE /\ h[v.a].arr = h[w.a].arr
       /\ Len(h[v.a].items) = Len(h[w.a].items)
       /\ \A i \in 1..Len(h[v.a].items) :
            StructurallyEqual(h, h[v.a].items[i], h[w.a].items[i])
       /\ DOMAIN h[v.a].f = DOMAIN h[w.a].f
       /\ \A n \in DOMAIN h[v.a].f :
            StructurallyEqual(h, h[v.a].f[n], h[w.a].f[n])

\* C6: cleaning the cleaned record again, with the same schema, table and
\* list, returns a record structurally equal to it.
C6_Idempotence ==
  pc = "recleaned" => StructurallyEqual(heap, result, result2)

\* The second call ran on a result that differs from the record, with zone
\* entries whose discriminator the first call had removed.
C6_Witness ==
  /\ pc = "recleaned"
  /\ ~StructurallyEqual(heap, data, result)
  /\ \E v \in visits :
       v.via = "dz" /\ "__component" \in Keys(v.in) \ DOMAIN Out(v)

\* C7: a field that is not excluded, is declared a repeatable component or
\* a dynamic zone and holds an array of n records, holds in the returned
\* object an array of n records, the i-th being the cleaned i-th entry.
C7_OrderAndCount ==
  \A v \in visits : \A n \in Keys(v.in) \ Excluded(v.schema) :
    LET val == In(v, n)
        type == IF Declared(v.schema, n) THEN v.schema.attributes[n].type ELSE ""
    IN  (/\ val.t = "r"
         /\ heap[val.a].arr
         /\ \A i \in 1..Len(heap[val.a].items) : IsRecord(heap[val.a].items[i])
         /\ \/ type = "dynamiczone"
            \/ type = "component" /\ v.schema.attributes[n].repeatable) =>
          /\ n \in DOMAIN Out(v)
          /\ Out(v)[n].t = "r"
          /\ heap[Out(v)[n].a].arr
          /\ Len(heap[Out(v)[n].a].items) = Len(heap[val.a].items)
          /\ \A i \in 1..Len(heap[val.a].items) :
               \E w \in visits :
                 /\ w.in = heap[val.a].items[i]
                 /\ R(w.out) = heap[Out(v)[n].a].items[i]
                 /\ DOMAIN Out(w) = Keys(w.in) \ Excluded(w.schema)

\* A repeatable component held two different entries, each with an id.
C7_Witness ==
  /\ pc = "cleaned"
  /\ \E v \in visits :
       /\ "images" \in Keys(v.in) \ Excluded(v.schema)
       /\ In(v, "images").t = "r"
       /\ heap[In(v, "images").a].arr
       /\ Len(heap[In(v, "images").a].items) >= 2
       /\ \A i \in 1..Len(heap[In(v, "images").a].items) :
            /\ IsRecord(heap[In(v, "images").a].items[i])
            /\ "id" \in Keys(heap[In(v, "images").a].items[i])
       /\ Keys(heap[In(v, "images").a].items[1])
            # Keys(heap[In(v, "images").a].items[2])

\* C8: a dynamic-zone entry is cleaned under the schema the table holds for
\* the entry's own __component: the names removed are those of that schema's
\* exclusion set, and the fields recursed into are the components that
\* schema declares; every other field is kept as it is.
C8_PerEntrySchema ==
  \A v \in visits :
    v.via = "dz" =>
      LET own == TableSchema(In(v, "__component").s)
      IN  /\ DOMAIN Out(v) = Keys(v.in) \ Excluded(own)
          /\ \A n \in DOMAIN Out(v) :
               IF Declared(own, n) /\ own.attributes[n].type = "component"
                  /\ Truthy(In(v, n))
                 THEN \E w \in visits : w.in = In(v, n) /\ R(w.out) = Out(v)[n]
                 ELSE Out(v)[n] = In(v, n)

\* A zone held a hero and a quote entry, both with the name only hero's
\* timestamps list and both with a cover: the hero entry lost the name and
\* had its cover cleaned, the quote entry kept both as they were.
C8_Witness ==
  /\ pc = "cleaned"
  /\ \E v \in visits, w \in visits :
       /\ v.via = "dz" /\ w.via = "dz"
       /\ In(v, "__component") = S("hero")
       /\ In(w, "__component") = S("quote")
       /\ "stamp" \in Keys(v.in) \ DOMAIN Out(v)
       /\ "stamp" \in Keys(w.in) \cap DOMAIN Out(w)
       /\ Out(v)["cover"] # In(v, "cover")
       /\ Out(w)["cover"] = In(w, "cover")
       /\ \E u \in visits :
            /\ "sections" \in Keys(u.in)
            /\ In(u, "sections").t = "r"
            /\ heap[In(u, "sections").a].arr
            /\ {v.in, w.in} \subseteq Range(heap[In(u, "sections").a].items)

\* C9: at every level the names removed are exactly those of the fields
\* argument and of the timestamps of the level's own schema; timestamps
\* that are no array count as empty and make no call fail.
C9_EffectiveExclusionSet ==
  /\ \A v \in visits : DOMAIN Out(v) = Keys(v.in) \ Excluded(v.schema)
  /\ threw => InputHasNullEntry

\* The content type lists a timestamps name the record lost, a nested entry
\* whose schema lists none kept that name, and another level's schema had
\* timestamps that are no array.
C9_Witness ==
  /\ pc = "cleaned"
  /\ ~threw
  /\ \E v \in visits :
       /\ v.via = "root"
       /\ v.schema.timestamps.isArray
       /\ "stamp" \in Keys(v.in) \ DOMAIN Out(v)
  /\ \E w \in visits :
       /\ w.via # "root"
       /\ w.schema.defined
       /\ w.schema.timestamps.isArray
       /\ "stamp" \in DOMAIN Out(w)
  /\ \E u \in visits :
       /\ u.schema.defined
       /\ ~u.schema.timestamps.isArray
       /\ "stamp" \in DOMAIN Out(u)

\* C10: a field the level's schema does not declare and the exclusion set
\* does not hold is kept with exactly its value, and no call cleans it.
C10_UndeclaredPassThrough ==
  \A v \in visits : \A n \in Keys(v.in) \ Excluded(v.schema) :
    ~Declared(v.schema, n) =>
      /\ n \in DOMAIN Out(v)
      /\ Out(v)[n] = In(v, n)
      /\ \A w \in visits : w.in # In(v, n)

\* The record kept an undeclared object, which still holds an id.
C10_Witness ==
  /\ pc = "cleaned"
  /\ \E v \in visits :
       /\ v.via = "root"
       /\ "extra" \in DOMAIN Out(v)
       /\ IsRecord(Out(v)["extra"])
       /\ Out(v)["extra"] = In(v, "extra")
       /\ "id" \in Keys(Out(v)["extra"])

====
